---- MODULE Spec2Model ----
(***************************************************************************)
(* Model of the Yul optimiser pass VarNameCleaner                          *)
(* (libyul/optimiser/VarNameCleaner.{h,cpp}).                              *)
(*                                                                         *)
(* A name (std::string) is a sequence of one-character strings.  A         *)
(* boost::optional<string> is a record [has, val]; the result of           *)
(* findCleanName additionally carries `fail` for the yulAssert that ends   *)
(* the pass with an exception.                                             *)
(***************************************************************************)
EXTENDS Integers, Sequences, FiniteSets, TLC

VARIABLES
    m_blacklist,   \* VarNameCleaner::m_blacklist, a vector of names
    builtins,      \* the names for which m_dialect.builtin() answers true
    m_usedNames,   \* VarNameCleaner::m_usedNames, old name -> new name
    decls,         \* the TypedNames visited so far: the name before and after
    ident,         \* the Identifier node visited by the last step, before and after
    failed,        \* yulAssert(false, ...) was raised: the pass is over
    rerun,         \* result of a second pass over the cleaned declarations
    strip,         \* last call of stripSuffix: argument and result
    parser,        \* a TestFileParser: its stream, its calls, how parseFunctionCalls ended
    conversion     \* a string, its bytes and formats, and the string formatted from them

vars == <<m_blacklist, builtins, m_usedNames, decls, ident, failed, rerun, strip, parser, conversion>>

(***************************************************************************)
(* Bounds of the model.                                                    *)
(***************************************************************************)
\* number of TypedNames visited in one run of the pass
MaxDecls == 3
\* number of TypedNames of one VariableDeclaration
MaxBindings == 2
\* stands for numeric_limits<size_t>::max(), the end of the fallback counter
SizeMax == 4
\* length of the names handed to stripSuffix in StripSpec
MaxLen == 4

(***************************************************************************)
(* Strings.                                                                *)
(***************************************************************************)
Digit == <<"0", "1", "2", "3", "4", "5", "6", "7", "8", "9">>

Digits == {Digit[k] : k \in 1..10}

Letters == <<"a", "b", "c", "d", "e", "f", "g", "h", "i", "j", "k", "l", "m",
             "n", "o", "p", "q", "r", "s", "t", "u", "v", "w", "x", "y", "z">>

Chars == Digits \cup {"_"} \cup {Letters[k] : k \in 1..26}

\* the character codes that operator< of std::string compares
CharCode ==
    [ch \in Chars |->
        IF ch \in Digits THEN 47 + (CHOOSE k \in 1..10 : Digit[k] = ch)
        ELSE IF ch = "_" THEN 95
        ELSE 96 + (CHOOSE k \in 1..26 : Letters[k] = ch)]

Ord(ch) == CharCode[ch]

RECURSIVE StringLess(_, _)
StringLess(s, t) ==
    IF t = <<>> THEN FALSE
    ELSE IF s = <<>> THEN TRUE
    ELSE IF Ord(Head(s)) # Ord(Head(t)) THEN Ord(Head(s)) < Ord(Head(t))
    ELSE StringLess(Tail(s), Tail(t))

RECURSIVE to_string(_)
to_string(i) ==
    IF i < 10 THEN <<Digit[i + 1]>>
    ELSE to_string(i \div 10) \o <<Digit[(i % 10) + 1]>>

None == [has |-> FALSE, fail |-> FALSE, val |-> <<>>]

Some(s) == [has |-> TRUE, fail |-> FALSE, val |-> s]

AssertionFailed == [has |-> FALSE, fail |-> TRUE, val |-> <<>>]

(***************************************************************************)
(* The blacklist: sorted by the constructor, searched by binary_search.    *)
(***************************************************************************)
RECURSIVE InsertSorted(_, _)
InsertSorted(s, x) ==
    IF s = <<>> THEN <<x>>
    ELSE IF StringLess(x, Head(s)) THEN <<x>> \o s
    ELSE <<Head(s)>> \o InsertSorted(Tail(s), x)

RECURSIVE Sort(_)
Sort(s) == IF s = <<>> THEN <<>> ELSE InsertSorted(Sort(Tail(s)), Head(s))

\* std::lower_bound over [first, last): halve the range until it is empty
RECURSIVE LowerBound(_, _, _, _)
LowerBound(v, first, last, x) ==
    IF first >= last THEN first
    ELSE LET mid == first + ((last - first) \div 2)
         IN  IF StringLess(v[mid], x) THEN LowerBound(v, mid + 1, last, x)
             ELSE LowerBound(v, first, mid, x)

binary_search(v, x) ==
    LET it == LowerBound(v, 1, Len(v) + 1, x)
    IN  it # Len(v) + 1 /\ ~StringLess(x, v[it])

(***************************************************************************)
(* stripSuffix: regex_search with (_+[0-9]+)+$                             *)
(***************************************************************************)
\* the automaton of (_+[0-9]+)+ : 0 start, 1 in underscores, 2 in digits, 3 dead
RegexStep(q, ch) ==
    IF ch = "_" THEN (IF q = 3 THEN 3 ELSE 1)
    ELSE IF ch \in Digits THEN (IF q \in {1, 2} THEN 2 ELSE 3)
    ELSE 3

RECURSIVE RegexRun(_, _)
RegexRun(q, s) == IF s = <<>> THEN q ELSE RegexRun(RegexStep(q, Head(s)), Tail(s))

\* the automaton of _+[0-9]+ , a single group
RegexStepOneGroup(q, ch) ==
    IF ch = "_" THEN (IF q \in {0, 1} THEN 1 ELSE 3)
    ELSE IF ch \in Digits THEN (IF q \in {1, 2} THEN 2 ELSE 3)
    ELSE 3

RECURSIVE RegexRunOneGroup(_, _)
RegexRunOneGroup(q, s) ==
    IF s = <<>> THEN q ELSE RegexRunOneGroup(RegexStepOneGroup(q, Head(s)), Tail(s))

\* as MatchesFrom, for the expression _+[0-9]+$
MatchesFrom_OneGroup(_name, p) ==
    RegexRunOneGroup(0, SubSeq(_name, p + 1, Len(_name))) = 2

\* the expression matches _name from offset p up to the end ($)
MatchesFrom(_name, p) == RegexRun(0, SubSeq(_name, p + 1, Len(_name))) = 2

\* as stripSuffix, the match taken being the shortest one: the last group only
stripSuffix_LastGroup(_name, blacklist) ==
    LET starts == {p \in 0..Len(_name) : MatchesFrom(_name, p)}
    IN  IF starts # {}
        THEN LET p == CHOOSE q \in starts : \A r \in starts : q >= r
                 name == SubSeq(_name, 1, p)
             IN  IF p > 0 /\ ~binary_search(blacklist, name) THEN Some(name) ELSE None
        ELSE None

\* as stripSuffix, the prefix not being looked up in the blacklist
stripSuffix_NoBlacklist(_name, blacklist) ==
    LET starts == {p \in 0..Len(_name) : MatchesFrom(_name, p)}
    IN  IF starts # {}
        THEN LET p == CHOOSE q \in starts : \A r \in starts : q <= r
                 name == SubSeq(_name, 1, p)
             IN  IF p > 0 THEN Some(name) ELSE None
        ELSE None

\* regex_search: the leftmost offset with a match; prefix().length() is that offset
stripSuffix(_name, blacklist) ==
    LET starts == {p \in 0..Len(_name) : MatchesFrom(_name, p)}
    IN  IF starts # {}
        THEN LET p == CHOOSE q \in starts : \A r \in starts : q <= r
                 name == SubSeq(_name, 1, p)
             IN  IF p > 0 /\ ~binary_search(blacklist, name) THEN Some(name) ELSE None
        ELSE None

(***************************************************************************)
(* The registry and the candidate resolver.                                *)
(***************************************************************************)
\* m_usedNames.count(n) != 0
count(used, n) == n \in DOMAIN used

\* m_usedNames[k] = v
Assign(used, k, v) == [n \in DOMAIN used \cup {k} |-> IF n = k THEN v ELSE used[n]]

\* as FindFreeSuffix, m_usedNames not being asked
RECURSIVE FindFreeSuffix_IgnoresRegistry(_, _, _, _)
FindFreeSuffix_IgnoresRegistry(newName, i, used, blacklist) ==
    IF i >= SizeMax THEN AssertionFailed
    ELSE LET newNameSuffixed == newName \o <<"_">> \o to_string(i)
         IN  IF ~binary_search(blacklist, newNameSuffixed)
             THEN Some(newNameSuffixed)
             ELSE FindFreeSuffix_IgnoresRegistry(newName, i + 1, used, blacklist)

\* as FindFreeSuffix, the blacklist not being searched
RECURSIVE FindFreeSuffix_IgnoresBlacklist(_, _, _, _)
FindFreeSuffix_IgnoresBlacklist(newName, i, used, blacklist) ==
    IF i >= SizeMax THEN AssertionFailed
    ELSE LET newNameSuffixed == newName \o <<"_">> \o to_string(i)
         IN  IF ~count(used, newNameSuffixed)
             THEN Some(newNameSuffixed)
             ELSE FindFreeSuffix_IgnoresBlacklist(newName, i + 1, used, blacklist)

\* as FindFreeSuffix, the loop ending without a name instead of the yulAssert
RECURSIVE FindFreeSuffix_GivesUp(_, _, _, _)
FindFreeSuffix_GivesUp(newName, i, used, blacklist) ==
    IF i >= SizeMax THEN None
    ELSE LET newNameSuffixed == newName \o <<"_">> \o to_string(i)
         IN  IF ~count(used, newNameSuffixed) /\ ~binary_search(blacklist, newNameSuffixed)
             THEN Some(newNameSuffixed)
             ELSE FindFreeSuffix_GivesUp(newName, i + 1, used, blacklist)

\* as FindFreeSuffix, m_usedNames being asked about newName, not newNameSuffixed
RECURSIVE FindFreeSuffix_CountsCandidate(_, _, _, _)
FindFreeSuffix_CountsCandidate(newName, i, used, blacklist) ==
    IF i >= SizeMax THEN AssertionFailed
    ELSE LET newNameSuffixed == newName \o <<"_">> \o to_string(i)
         IN  IF ~count(used, newName) /\ ~binary_search(blacklist, newNameSuffixed)
             THEN Some(newNameSuffixed)
             ELSE FindFreeSuffix_CountsCandidate(newName, i + 1, used, blacklist)

\* the loop of findCleanName from counter value i on
RECURSIVE FindFreeSuffix(_, _, _, _)
FindFreeSuffix(newName, i, used, blacklist) ==
    IF i >= SizeMax THEN AssertionFailed
    ELSE LET newNameSuffixed == newName \o <<"_">> \o to_string(i)
         IN  IF ~count(used, newNameSuffixed) /\ ~binary_search(blacklist, newNameSuffixed)
             THEN Some(newNameSuffixed)
             ELSE FindFreeSuffix(newName, i + 1, used, blacklist)

\* as findCleanName, the dialect not being asked
findCleanName_NoBuiltinCheck(_name, used, blacklist, dialect) ==
    LET newName == stripSuffix(_name, blacklist)
    IN  IF newName.has
        THEN IF ~count(used, newName.val)
             THEN newName
             ELSE FindFreeSuffix(newName.val, 1, used, blacklist)
        ELSE None

\* as findCleanName, m_usedNames not being asked about the stripped name
findCleanName_NoRegistryCheck(_name, used, blacklist, dialect) ==
    LET newName == stripSuffix(_name, blacklist)
    IN  IF newName.has
        THEN IF newName.val \notin dialect
             THEN newName
             ELSE FindFreeSuffix(newName.val, 1, used, blacklist)
        ELSE None

findCleanName(_name, used, blacklist, dialect) ==
    LET newName == stripSuffix(_name, blacklist)
    IN  IF newName.has
        THEN IF newName.val \notin dialect /\ ~count(used, newName.val)
             THEN newName
             ELSE FindFreeSuffix(newName.val, 1, used, blacklist)
        ELSE None

\* as makeCleanName, without m_usedNames[_name] = *newName
makeCleanName_ForgetsOriginal(_name, used, blacklist, dialect) ==
    LET newName == findCleanName(_name, used, blacklist, dialect)
    IN  IF newName.fail THEN [ret |-> newName, used |-> used]
        ELSE IF newName.has
        THEN [ret |-> newName, used |-> Assign(used, newName.val, newName.val)]
        ELSE [ret |-> None, used |-> Assign(used, _name, _name)]

\* as makeCleanName, without m_usedNames[*newName] = *newName
makeCleanName_ForgetsNewName(_name, used, blacklist, dialect) ==
    LET newName == findCleanName(_name, used, blacklist, dialect)
    IN  IF newName.fail THEN [ret |-> newName, used |-> used]
        ELSE IF newName.has
        THEN [ret |-> newName, used |-> Assign(used, _name, newName.val)]
        ELSE [ret |-> None, used |-> Assign(used, _name, _name)]

\* as makeCleanName, without m_usedNames[_name] = _name
makeCleanName_ForgetsUnchanged(_name, used, blacklist, dialect) ==
    LET newName == findCleanName(_name, used, blacklist, dialect)
    IN  IF newName.fail THEN [ret |-> newName, used |-> used]
        ELSE IF newName.has
        THEN [ret |-> newName,
              used |-> Assign(Assign(used, newName.val, newName.val), _name, newName.val)]
        ELSE [ret |-> None, used |-> used]

\* makeCleanName: the returned optional and the registry it leaves behind
makeCleanName(_name, used, blacklist, dialect) ==
    LET newName == findCleanName(_name, used, blacklist, dialect)
    IN  IF newName.fail THEN [ret |-> newName, used |-> used]
        ELSE IF newName.has
        THEN [ret |-> newName,
              used |-> Assign(Assign(used, newName.val, newName.val), _name, newName.val)]
        ELSE [ret |-> None, used |-> Assign(used, _name, _name)]

\* as getCleanName, without the test n->second != _name
getCleanName_AnyEntry(_name, used) ==
    IF count(used, _name) THEN Some(used[_name]) ELSE None

getCleanName(_name, used) ==
    IF count(used, _name) /\ used[_name] # _name THEN Some(used[_name]) ELSE None

(***************************************************************************)
(* The visit actions of the pass.                                          *)
(***************************************************************************)
\* operator()(Identifier&): the node before and after, and whether it was assigned
VisitIdentifierNode(_identifier, used) ==
    LET newName == getCleanName(_identifier, used)
    IN  [orig |-> _identifier,
         name |-> IF newName.has THEN newName.val ELSE _identifier,
         assigned |-> newName.has]

\* as CleanVariables, every name being resolved against the registry the
\* declaration started with
RECURSIVE CleanVariables_StaleRegistry(_, _, _, _)
CleanVariables_StaleRegistry(variables, used, blacklist, dialect) ==
    IF variables = <<>> THEN [used |-> used, out |-> <<>>, fail |-> FALSE]
    ELSE LET r == makeCleanName(Head(variables), used, blacklist, dialect)
         IN  IF r.ret.fail THEN [used |-> used, out |-> <<>>, fail |-> TRUE]
             ELSE LET typedName == [orig |-> Head(variables),
                                    name |-> IF r.ret.has THEN r.ret.val ELSE Head(variables),
                                    assigned |-> r.ret.has]
                      rest == CleanVariables_StaleRegistry(Tail(variables), used,
                                                           blacklist, dialect)
                  IN  [used |-> [n \in DOMAIN r.used \cup DOMAIN rest.used |->
                                    IF n \in DOMAIN rest.used THEN rest.used[n]
                                    ELSE r.used[n]],
                       out |-> <<typedName>> \o rest.out,
                       fail |-> rest.fail]

\* the loop over _varDecl.variables, from the registry `used` on: the registry
\* afterwards, the TypedNames before and after, and whether yulAssert ended it
RECURSIVE CleanVariables(_, _, _, _)
CleanVariables(variables, used, blacklist, dialect) ==
    IF variables = <<>> THEN [used |-> used, out |-> <<>>, fail |-> FALSE]
    ELSE LET r == makeCleanName(Head(variables), used, blacklist, dialect)
         IN  IF r.ret.fail THEN [used |-> used, out |-> <<>>, fail |-> TRUE]
             ELSE LET typedName == [orig |-> Head(variables),
                                    name |-> IF r.ret.has THEN r.ret.val ELSE Head(variables),
                                    assigned |-> r.ret.has]
                      rest == CleanVariables(Tail(variables), r.used, blacklist, dialect)
                  IN  [used |-> rest.used, out |-> <<typedName>> \o rest.out,
                       fail |-> rest.fail]

NoIdentifier == [orig |-> <<>>, name |-> <<>>, assigned |-> FALSE]

NoValue == <<>>

\* ASTModifier::operator()(VariableDeclaration&): visits the value, if there is one
ASTModifierVariableDeclaration(value, used) ==
    IF value = NoValue THEN NoIdentifier ELSE VisitIdentifierNode(value, used)

\* operator()(VariableDeclaration&), the value being absent or an Identifier
VisitVariableDeclaration(variables, value) ==
    /\ ~failed
    /\ ~rerun.done
    /\ \E r \in {CleanVariables(variables, m_usedNames, m_blacklist, builtins)} :
           /\ m_usedNames' = r.used
           /\ decls' = decls \o r.out
           /\ failed' = r.fail
           /\ ident' = IF r.fail THEN NoIdentifier
                       ELSE ASTModifierVariableDeclaration(value, r.used)
    /\ UNCHANGED <<m_blacklist, builtins, rerun, strip, parser, conversion>>

\* operator()(Identifier&)
VisitIdentifier(_identifier) ==
    /\ ~failed
    /\ ~rerun.done
    /\ ident' = VisitIdentifierNode(_identifier, m_usedNames)
    /\ UNCHANGED <<m_blacklist, builtins, m_usedNames, decls, failed, rerun, strip, parser, conversion>>

\* the names of the TypedNames after the pass, in program order
FinalNames(ds) == [k \in 1..Len(ds) |-> ds[k].name]

OriginalNames(ds) == [k \in 1..Len(ds) |-> ds[k].orig]

EmptyRegistry == [n \in {} |-> <<>>]

\* A second VarNameCleaner, with the same dialect and blacklist, run over the
\* declarations the first one left behind.
RunAgain ==
    /\ ~failed
    /\ ~rerun.done
    /\ decls # <<>>
    /\ \E r \in {CleanVariables(FinalNames(decls), EmptyRegistry, m_blacklist, builtins)} :
           rerun' = [done |-> TRUE, fail |-> r.fail, names |-> FinalNames(r.out)]
    /\ UNCHANGED <<m_blacklist, builtins, m_usedNames, decls, ident, failed, strip, parser, conversion>>

(***************************************************************************)
(* Inputs.                                                                 *)
(***************************************************************************)
\* the sequences over S of length 1..n
RECURSIVE SeqsUpTo(_, _)
SeqsUpTo(S, n) ==
    IF n = 0 THEN {}
    ELSE LET shorter == SeqsUpTo(S, n - 1)
         IN  {<<e>> : e \in S} \cup shorter \cup {s \o <<e>> : s \in shorter, e \in S}

a == <<"a">>

a_1 == <<"a", "_", "1">>

a_2 == <<"a", "_", "2">>

a_3 == <<"a", "_", "3">>

a_1_2 == <<"a", "_", "1", "_", "2">>

a_15 == <<"a", "_", "1", "5">>

a_17 == <<"a", "_", "1", "7">>

x == <<"x">>

abi_decode == <<"a", "b", "i", "_", "d", "e", "c", "o", "d", "e">>

abi_decode_1 == abi_decode \o <<"_", "1">>

abi_decode_256 == abi_decode \o <<"_", "2", "5", "6">>

\* names declared in the runs of Spec
DeclNames == {a, a_1, a_1_2, abi_decode_256}

\* the variables of one VariableDeclaration
DeclVariables == SeqsUpTo(DeclNames, MaxBindings)

\* names of the Identifier nodes: declared ones and one bound outside
RefNames == {a, a_1, x}

\* the blacklists handed to the constructor, in the caller's order
Blacklists == {<<>>, <<a>>, <<a_2, a_1>>}

\* the builtins of the dialects
Dialects == {{}, {abi_decode}, {a, a_1}}

NoStrip == [called |-> FALSE, name |-> <<>>, ret |-> None]

\* no TestFileParser has been constructed
NoParser == [state |-> "none", stream |-> <<>>, calls |-> <<>>]

\* no string has been given to formattedStringToBytes
NoConversion ==
    [state |-> "none", string |-> <<>>, bytes |-> <<>>, formats |-> <<>>, output |-> <<>>]

NoRerun == [done |-> FALSE, fail |-> FALSE, names |-> <<>>]

\* VarNameCleaner(_dialect, _blacklist): the blacklist is sorted, the registry empty
Construct(_dialect, _blacklist) ==
    /\ builtins = _dialect
    /\ m_blacklist = Sort(_blacklist)
    /\ m_usedNames = EmptyRegistry

Init ==
    /\ \E _dialect \in Dialects, _blacklist \in Blacklists : Construct(_dialect, _blacklist)
    /\ decls = <<>>
    /\ ident = NoIdentifier
    /\ failed = FALSE
    /\ rerun = NoRerun
    /\ strip = NoStrip
    /\ parser = NoParser
    /\ conversion = NoConversion

Declare ==
    \E variables \in DeclVariables, value \in {NoValue} \cup RefNames :
        /\ Len(decls) + Len(variables) <= MaxDecls
        /\ VisitVariableDeclaration(variables, value)

Refer == \E _identifier \in RefNames : VisitIdentifier(_identifier)

Next == Declare \/ Refer \/ RunAgain

Spec == Init /\ [][Next]_vars

(***************************************************************************)
(* The runs of the transform comment: one name per declaration, no         *)
(* blacklist, no builtins.                                                 *)
(***************************************************************************)
\* number of declarations of such a run
ScenarioDecls == 4

ScenarioNames == {a, a_1, a_1_2, a_2, a_15, a_17, abi_decode_256}

ScenarioInit ==
    /\ Construct({}, <<>>)
    /\ decls = <<>>
    /\ ident = NoIdentifier
    /\ failed = FALSE
    /\ rerun = NoRerun
    /\ strip = NoStrip
    /\ parser = NoParser
    /\ conversion = NoConversion

ScenarioNext ==
    \E n \in ScenarioNames :
        /\ Len(decls) < ScenarioDecls
        /\ VisitVariableDeclaration(<<n>>, NoValue)

ScenarioSpec == ScenarioInit /\ [][ScenarioNext]_vars

(***************************************************************************)
(* stripSuffix on its own: every name up to MaxLen characters, under       *)
(* several blacklists and registries.                                      *)
(***************************************************************************)
a_1b == <<"a", "_", "1", "b">>

a_1b_2 == <<"a", "_", "1", "b", "_", "2">>

StripChars == {"a", "b", "_", "1"}

StripNames == SeqsUpTo(StripChars, MaxLen) \cup {<<>>, a_1b_2, a_1_2, abi_decode_256}

StripBlacklists == {<<>>, <<a>>, <<a_1b, a>>}

StripInit ==
    /\ \E _blacklist \in StripBlacklists : Construct({}, _blacklist)
    /\ decls = <<>>
    /\ ident = NoIdentifier
    /\ failed = FALSE
    /\ rerun = NoRerun
    /\ \E _name \in StripNames : strip = [called |-> FALSE, name |-> _name, ret |-> None]
    /\ parser = NoParser
    /\ conversion = NoConversion

\* stripSuffix(strip.name)
StripCall ==
    /\ strip' = [called |-> TRUE, name |-> strip.name,
                 ret |-> stripSuffix(strip.name, m_blacklist)]
    /\ UNCHANGED <<m_blacklist, builtins, m_usedNames, decls, ident, failed, rerun, parser, conversion>>

StripDeclare ==
    \E n \in {a, a_1} :
        /\ Len(decls) < 2
        /\ VisitVariableDeclaration(<<n>>, NoValue)

StripNext == StripCall \/ StripDeclare

StripSpec == StripInit /\ [][StripNext]_vars

(***************************************************************************)
(* Properties.                                                             *)
(***************************************************************************)
\* the original names of the declarations are pairwise distinct
Distinct(ds) == \A i, j \in 1..Len(ds) : i # j => ds[i].orig # ds[j].orig

\* the names the caller put on the blacklist
BlacklistSet == {m_blacklist[k] : k \in 1..Len(m_blacklist)}

\* C1. Uniqueness: when the original names declared in a run are pairwise
\* distinct, the final names of any two of them are distinct.
Uniqueness ==
    Distinct(decls) =>
        \A i, j \in 1..Len(decls) : i # j => decls[i].name # decls[j].name

\* C2. No collision with reserved names: no declaration's final name, changed
\* or left as it was, is a builtin of the dialect or on the blacklist.  Stated
\* here for the runs that declare no reserved name in the first place.
NoCollisionWithReserved ==
    (\A i \in 1..Len(decls) : decls[i].orig \notin builtins \cup BlacklistSet) =>
        \A i \in 1..Len(decls) :
            decls[i].name \notin builtins /\ decls[i].name \notin BlacklistSet

\* C3. Idempotence: a second run of the pass (empty registry, same blacklist
\* and dialect) over the output of a run with pairwise distinct original names
\* gives every declaration the name the first run gave it.
Idempotence ==
    (rerun.done /\ Distinct(decls)) =>
        (~rerun.fail /\ rerun.names = FinalNames(decls))

\* C4. Reference consistency: with pairwise distinct original names, an
\* Identifier visited after the declaration of the name it refers to carries,
\* after the visit, the final name of that declaration.
ReferenceConsistency ==
    (ident # NoIdentifier /\ Distinct(decls)) =>
        \A i \in 1..Len(decls) :
            decls[i].orig = ident.orig => ident.name = decls[i].name

ReferenceRenamed ==
    /\ Distinct(decls)
    /\ ident.orig = a_1
    /\ ident.assigned
    /\ \E i \in 1..Len(decls) : decls[i].orig = a_1 /\ decls[i].name = a /\ ident.name = a

\* C5, as claimed. Registry monotonicity: with pairwise distinct original
\* names, a step neither deletes an entry of the registry nor changes the value
\* of one.
RegistryMonotone ==
    [][Distinct(decls') =>
          \A n \in DOMAIN m_usedNames :
              n \in DOMAIN m_usedNames' /\ m_usedNames'[n] = m_usedNames[n]]_vars

\* C5, amended. The registry starts empty and, with pairwise distinct original
\* names, a step deletes no entry and leaves the entry of every name declared
\* so far as it is; the self-entry of a final name may be overwritten by the
\* later declaration of that name.
DeclaredEntriesMonotone ==
    /\ [](decls = <<>> => m_usedNames = EmptyRegistry)
    /\ [][Distinct(decls') =>
             /\ DOMAIN m_usedNames \subseteq DOMAIN m_usedNames'
             /\ \A i \in 1..Len(decls) :
                    /\ decls[i].orig \in DOMAIN m_usedNames
                    /\ m_usedNames'[decls[i].orig] = m_usedNames[decls[i].orig]
                    /\ m_usedNames[decls[i].orig] = decls[i].name]_vars

SelfEntryOverwritten ==
    /\ Distinct(decls)
    /\ Len(decls) = 3
    /\ decls[2].orig = a_1_2 /\ decls[2].name = a_1
    /\ decls[3].orig = a_1
    /\ m_usedNames[a_1] = a_2
    /\ m_usedNames[a_1_2] = a_1

\* C6. Lookup at a reference: a step that visits an Identifier assigns to it
\* exactly when its name has an entry whose value differs from the name, and
\* then assigns that value; otherwise the node keeps its name.  A step that
\* visits no declaration leaves the registry as it is.
LookupAtReference ==
    [][/\ decls' = decls => m_usedNames' = m_usedNames
       /\ (ident' # NoIdentifier /\ (ident' # ident \/ decls' # decls)) =>
             LET n == ident'.orig
                 changed == n \in DOMAIN m_usedNames' /\ m_usedNames'[n] # n
             IN  /\ ident'.assigned = changed
                 /\ ident'.name = IF changed THEN m_usedNames'[n] ELSE n]_vars

ReferenceUntouched ==
    /\ ident.orig = a
    /\ a \in DOMAIN m_usedNames
    /\ m_usedNames[a] = a
    /\ ~ident.assigned
    /\ ident.name = a

\* C7. With no blacklist and no builtins, a, a_1, a_1_2 become a, a_1, a_2;
\* a, a_1, a_1_2, a_2 become a, a_1, a_2, a_3; abi_decode_256 becomes abi_decode.
TransformComment ==
    /\ OriginalNames(decls) = <<a, a_1, a_1_2>> => FinalNames(decls) = <<a, a_1, a_2>>
    /\ OriginalNames(decls) = <<a, a_1, a_1_2, a_2>> =>
           FinalNames(decls) = <<a, a_1, a_2, a_3>>
    /\ OriginalNames(decls) = <<abi_decode_256>> => FinalNames(decls) = <<abi_decode>>

TransformCommentDone ==
    /\ OriginalNames(decls) = <<a, a_1, a_1_2, a_2>>
    /\ FinalNames(decls) = <<a, a_1, a_2, a_3>>

\* C8. With no blacklist and no builtins, a_15 and then a_17 become a and a_2.
TransformComment15_17 ==
    OriginalNames(decls) = <<a_15, a_17>> => FinalNames(decls) = <<a, a_2>>

\* the fallback name of candidate c with number i is free
FallbackFree(c, i, used) ==
    LET c_i == c \o <<"_">> \o to_string(i)
    IN  c_i \notin DOMAIN used /\ c_i \notin BlacklistSet

\* C9. Builtin rejection: a declared name whose stripped candidate c is a
\* builtin never gets c; it gets c_i for the lowest i >= 1 whose c_i is neither
\* in the registry nor on the blacklist.  abi_decode_256, abi_decode being a
\* builtin and the registry empty, becomes abi_decode_1.
BuiltinRejection ==
    [][Len(decls') = Len(decls) + 1 =>
          LET d == decls'[Len(decls')]
              c == stripSuffix(d.orig, m_blacklist)
          IN  /\ (c.has /\ c.val \in builtins) =>
                     /\ d.name # c.val
                     /\ \E i \in 1..(SizeMax - 1) :
                            /\ d.name = c.val \o <<"_">> \o to_string(i)
                            /\ FallbackFree(c.val, i, m_usedNames)
                            /\ \A j \in 1..(i - 1) : ~FallbackFree(c.val, j, m_usedNames)
              /\ (d.orig = abi_decode_256 /\ abi_decode \in builtins /\ decls = <<>>
                    /\ abi_decode_1 \notin BlacklistSet) =>
                     d.name = abi_decode_1]_vars

BuiltinRejected ==
    /\ abi_decode \in builtins
    /\ Len(decls) >= 1
    /\ decls[1].orig = abi_decode_256
    /\ decls[1].name = abi_decode_1

(***************************************************************************)
(* The contract of stripSuffix, stated without the regular expression.     *)
(***************************************************************************)
\* s is one group: one or more underscores, then one or more digits
IsGroup(s) ==
    \E k \in 1..(Len(s) - 1) :
        /\ \A m \in 1..k : s[m] = "_"
        /\ \A m \in (k + 1)..Len(s) : s[m] \in Digits

\* s is a run of one or more groups
RECURSIVE IsGroupRun(_)
IsGroupRun(s) ==
    \/ IsGroup(s)
    \/ \E k \in 2..(Len(s) - 2) :
           IsGroup(SubSeq(s, 1, k)) /\ IsGroupRun(SubSeq(s, k + 1, Len(s)))

\* the lengths p of the prefixes of n that are followed by a maximal trailing run
MaximalRunCuts(n) ==
    {p \in 0..Len(n) :
        /\ IsGroupRun(SubSeq(n, p + 1, Len(n)))
        /\ \A q \in 0..(p - 1) : ~IsGroupRun(SubSeq(n, q + 1, Len(n)))}

\* C10. stripSuffix returns the prefix p exactly when the name is p followed
\* by a maximal trailing run of groups, p is not empty and p is not on the
\* blacklist; otherwise it returns none.  a_1b_2 gives a_1b.  The registry and
\* earlier calls play no part.
StripContract ==
    strip.called =>
        LET n == strip.name
            ok == {p \in MaximalRunCuts(n) : p > 0 /\ SubSeq(n, 1, p) \notin BlacklistSet}
        IN  /\ ok # {} => \E p \in ok : strip.ret = Some(SubSeq(n, 1, p))
            /\ ok = {} => strip.ret = None
            /\ (n = a_1b_2 /\ a_1b \notin BlacklistSet) => strip.ret = Some(a_1b)

InternalGroupKept ==
    /\ strip.called
    /\ strip.name = a_1b_2
    /\ strip.ret = Some(a_1b)
    /\ m_usedNames # EmptyRegistry

\* C11. No-strip case: when stripSuffix returns none for a declared name n, the
\* declaration keeps n, the only registry entry written is n -> n (no fallback
\* name appears), and a lookup of n reports no new name.  With a on the
\* blacklist, a_1 is such a name.
NoStripKeepsName ==
    [][Len(decls') = Len(decls) + 1 =>
          LET d == decls'[Len(decls')]
              n == d.orig
          IN  /\ ~stripSuffix(n, m_blacklist).has =>
                     /\ d.name = n
                     /\ ~d.assigned
                     /\ DOMAIN m_usedNames' = DOMAIN m_usedNames \cup {n}
                     /\ m_usedNames'[n] = n
                     /\ \A k \in DOMAIN m_usedNames : k # n => m_usedNames'[k] = m_usedNames[k]
                     /\ ident'.orig = n => (~ident'.assigned /\ ident'.name = n)
              /\ (a \in BlacklistSet /\ n = a_1) => ~stripSuffix(n, m_blacklist).has]_vars

BlacklistedPrefixKept ==
    /\ a \in BlacklistSet
    /\ Len(decls) >= 1
    /\ decls[1].orig = a_1
    /\ decls[1].name = a_1
    /\ m_usedNames[a_1] = a_1
    /\ ident.orig = a_1
    /\ ~ident.assigned

\* the final names of the declarations visited so far
FinalNameSet == {decls[k].name : k \in 1..Len(decls)}

\* the names the registry maps some name to
RegistryValues == {m_usedNames[k] : k \in DOMAIN m_usedNames}

\* the stripped candidates of the names the runs declare
Candidates ==
    {stripSuffix(n, m_blacklist).val : n \in {m \in DeclNames : stripSuffix(m, m_blacklist).has}}

\* C12. Direct acceptance: a declared name with stripped candidate c gets c if
\* and only if c is no builtin and c is not yet in the registry as a final
\* name; for a stripped candidate, being a key of the registry, being a value
\* of it and being the final name of a declaration are the same in every state.
DirectAcceptance ==
    /\ [](\A c \in Candidates :
             /\ (c \in DOMAIN m_usedNames) = (c \in FinalNameSet)
             /\ (c \in DOMAIN m_usedNames) = (c \in RegistryValues))
    /\ [][Len(decls') = Len(decls) + 1 =>
             LET d == decls'[Len(decls')]
                 c == stripSuffix(d.orig, m_blacklist)
             IN  c.has =>
                    ((d.assigned /\ d.name = c.val) =
                        (c.val \notin builtins /\ c.val \notin FinalNameSet))]_vars

CandidateAccepted ==
    /\ Len(decls) = 2
    /\ decls[1].orig = a_1 /\ decls[1].name = a
    /\ decls[2].orig = a_1_2 /\ decls[2].name # a
    /\ a \notin builtins

\* the number i of the fallback name c_i, 0 when name is no fallback name of c
FallbackIndex(c, name) ==
    LET is == {i \in 1..(SizeMax - 1) : name = c \o <<"_">> \o to_string(i)}
    IN  IF is = {} THEN 0 ELSE CHOOSE i \in is : TRUE

\* C13. Fallback selection: when the stripped candidate c is not accepted
\* directly, the final name is c_i for the smallest i >= 1 whose c_i is neither
\* a key of the registry nor on the blacklist, whether or not c_i is a builtin.
FallbackSelection ==
    [][Len(decls') = Len(decls) + 1 =>
          LET d == decls'[Len(decls')]
              c == stripSuffix(d.orig, m_blacklist)
          IN  (c.has /\ (c.val \in builtins \/ c.val \in DOMAIN m_usedNames)) =>
                  LET i == FallbackIndex(c.val, d.name)
                  IN  /\ i >= 1
                      /\ d.name \notin DOMAIN m_usedNames
                      /\ d.name \notin BlacklistSet
                      /\ \A j \in 1..(i - 1) :
                             \/ c.val \o <<"_">> \o to_string(j) \in DOMAIN m_usedNames
                             \/ c.val \o <<"_">> \o to_string(j) \in BlacklistSet]_vars

BuiltinFallbackChosen ==
    /\ Len(decls) = 1
    /\ decls[1].orig = a_1_2
    /\ decls[1].name = a_1
    /\ a_1 \in builtins

(***************************************************************************)
(* Declarations of several variables with a value, over a, a_1 and a_2.    *)
(***************************************************************************)
BindingNames == {a, a_1, a_2}

BindingVariables == SeqsUpTo(BindingNames, MaxBindings)

BindingDeclare ==
    \E variables \in BindingVariables, value \in {NoValue} \cup BindingNames :
        /\ Len(decls) + Len(variables) <= MaxDecls
        /\ VisitVariableDeclaration(variables, value)

BindingSpec == Init /\ [][BindingDeclare]_vars

\* the registry after the first j of the TypedNames ds, each resolved and
\* committed before the next, starting from the registry used
RECURSIVE RegistryAfter(_, _, _)
RegistryAfter(ds, j, used) ==
    IF j = 0 THEN used
    ELSE makeCleanName(ds[j].orig, RegistryAfter(ds, j - 1, used), m_blacklist, builtins).used

\* the TypedNames a step appends to decls
Appended == SubSeq(decls', Len(decls) + 1, Len(decls'))

\* every appended TypedName was resolved against the registry its left
\* neighbours left behind, and the value was looked up in the registry the
\* last one left behind
ResolvedInOrder ==
    LET new == Appended
    IN  /\ \A j \in 1..Len(new) :
               LET r == makeCleanName(new[j].orig, RegistryAfter(new, j - 1, m_usedNames),
                                      m_blacklist, builtins)
               IN  /\ ~r.ret.fail
                   /\ new[j].assigned = r.ret.has
                   /\ new[j].name = IF r.ret.has THEN r.ret.val ELSE new[j].orig
        /\ m_usedNames' = RegistryAfter(new, Len(new), m_usedNames)
        /\ (ident' # NoIdentifier /\ new # <<>>) =>
               LET n == ident'.orig
                   changed == n \in DOMAIN m_usedNames' /\ m_usedNames'[n] # n
               IN  ident'.name = IF changed THEN m_usedNames'[n] ELSE n

\* a_1 and a_2 declared by the first declaration of a run with no blacklist
\* and no builtins
FirstDeclaresA1A2 ==
    /\ decls = <<>>
    /\ m_blacklist = <<>>
    /\ builtins = {}
    /\ OriginalNames(decls') = <<a_1, a_2>>

\* C14, as claimed. Binding order: the variables of one declaration are
\* resolved and committed one at a time in declared order, each seeing the
\* entries of those to its left, and the value is visited after all of them;
\* a_1, a_2 in one declaration become a, a_1.
BindingOrderAsClaimed ==
    [][/\ ResolvedInOrder
       /\ FirstDeclaresA1A2 => FinalNames(decls') = <<a, a_1>>]_vars

\* C14, amended. As above, but a_1, a_2 in one declaration become a, a_2: a_1
\* is a key of the registry, as the original name of the first variable.
BindingOrder ==
    [][/\ ResolvedInOrder
       /\ FirstDeclaresA1A2 => FinalNames(decls') = <<a, a_2>>]_vars

BindingsInOrder ==
    /\ m_blacklist = <<>>
    /\ builtins = {}
    /\ OriginalNames(decls) = <<a_1, a_2>>
    /\ FinalNames(decls) = <<a, a_2>>
    /\ ident.orig = a_2
    /\ ident.name = a_2
    /\ ~ident.assigned

\* the stripped name of n is not accepted and every name the loop of
\* findCleanName forms from it is a key of used or on the blacklist
Exhausted(n, used) ==
    LET c == stripSuffix(n, m_blacklist)
    IN  /\ c.has
        /\ c.val \in builtins \/ c.val \in DOMAIN used
        /\ \A i \in 1..(SizeMax - 1) :
               \/ c.val \o <<"_">> \o to_string(i) \in DOMAIN used
               \/ c.val \o <<"_">> \o to_string(i) \in BlacklistSet

\* C15. Fatal exhaustion: a declaration whose fallback search runs through
\* the whole range of the counter is never skipped; the pass fails, nothing
\* is written to the registry for the offending name, its TypedName is not
\* renamed, the value is not visited, and no visit follows the failure.
FatalExhaustion ==
    [][/\ ~failed
       /\ failed' =>
              /\ \E n \in DeclNames : Exhausted(n, m_usedNames')
              /\ Len(Appended) < MaxBindings
              /\ m_usedNames' = RegistryAfter(Appended, Len(Appended), m_usedNames)
              /\ ident' = NoIdentifier
       /\ (~failed' /\ Len(decls') > Len(decls)) =>
              \A j \in 1..Len(Appended) :
                  ~Exhausted(Appended[j].orig, RegistryAfter(Appended, j - 1, m_usedNames))]_vars

FailedOnExhaustion ==
    /\ failed
    /\ OriginalNames(decls) = <<a, a_1>>
    /\ FinalNames(decls) = <<a, a_3>>
    /\ Exhausted(a_1_2, m_usedNames)
    /\ a_1_2 \notin DOMAIN m_usedNames

\* C17, as claimed. Registry closure: while the declared original names are
\* pairwise distinct, every value f of the registry is a key that maps to
\* itself.
RegistryClosure ==
    Distinct(decls) =>
        \A s \in DOMAIN m_usedNames :
            LET f == m_usedNames[s]
            IN  f \in DOMAIN m_usedNames /\ m_usedNames[f] = f

\* C17, amended. Every value f of the registry is a key; it maps to itself
\* unless f has itself been declared and renamed, and then it maps to the
\* final name of that declaration.
RegistryClosureUntilDeclared ==
    \A s \in DOMAIN m_usedNames :
        LET f == m_usedNames[s]
        IN  /\ f \in DOMAIN m_usedNames
            /\ m_usedNames[f] # f =>
                   \E j \in 1..Len(decls) :
                       /\ decls[j].orig = f
                       /\ decls[j].assigned
                       /\ decls[j].name = m_usedNames[f]

FinalNameDeclaredLater ==
    /\ Distinct(decls)
    /\ a_1_2 \in DOMAIN m_usedNames
    /\ m_usedNames[a_1_2] = a_1
    /\ m_usedNames[a_1] = a_2
    /\ m_usedNames[a_2] = a_2

\* C18. Newly chosen names are fresh and permitted: a name the resolver
\* returns for a declaration is not on the blacklist and was no key of the
\* registry just before it was committed, and a stripped name that was
\* accepted as it is is no builtin.
FreshAndPermitted ==
    [][\A j \in 1..Len(Appended) :
           LET d == Appended[j]
               before == RegistryAfter(Appended, j - 1, m_usedNames)
               c == stripSuffix(d.orig, m_blacklist)
           IN  d.assigned =>
                   /\ d.name \notin BlacklistSet
                   /\ d.name \notin DOMAIN before
                   /\ (c.has /\ d.name = c.val) => d.name \notin builtins]_vars

FreshNamesChosen ==
    /\ {a_1, a_2} \subseteq BlacklistSet
    /\ Len(decls) = 2
    /\ decls[1].orig = a_1 /\ decls[1].name = a /\ decls[1].assigned
    /\ decls[2].orig = a_1_2 /\ decls[2].name = a_3 /\ decls[2].assigned

\* C19. The stripped name is itself clean: when stripSuffix returns p, no
\* suffix of p is a run of groups, and stripSuffix returns none for p under
\* every blacklist.
StrippedIsClean ==
    (strip.called /\ strip.ret.has) =>
        LET p == strip.ret.val
        IN  /\ \A k \in 1..Len(p) : ~IsGroupRun(SubSeq(p, k, Len(p)))
            /\ \A _blacklist \in StripBlacklists : stripSuffix(p, Sort(_blacklist)) = None

TwoGroupsStripped ==
    /\ strip.called
    /\ strip.name = a_1_2
    /\ strip.ret = Some(a)
    /\ stripSuffix(a, m_blacklist) = None

\* the stripped names the fallback search is asked about
FallbackCandidates == {a, a_1, abi_decode, x}

\* the search from newName with the registry used returns an index of at most
\* (keys of used) + (names on the blacklist) + 1, and runs out of indices only
\* when the counter has no more than (keys) + (names) of them
WithinBound(newName, used) ==
    LET r == FindFreeSuffix(newName, 1, used, m_blacklist)
        k == Cardinality(DOMAIN used)
        b == Cardinality(BlacklistSet)
    IN  IF r.fail THEN SizeMax - 1 <= k + b
        ELSE r.has /\ FallbackIndex(newName, r.val) \in 1..(k + b + 1)

\* C20. Fallback search terminates early: with k keys in the registry and b
\* names on the blacklist, the search returns an index i <= k + b + 1 for
\* every stripped name, so a declaration fails only when the counter has
\* fewer than k + b + 1 indices.
FallbackBound ==
    /\ [](\A c \in FallbackCandidates : WithinBound(c, m_usedNames))
    /\ [][/\ \A j \in 1..Len(Appended) :
                 LET d == Appended[j]
                     before == RegistryAfter(Appended, j - 1, m_usedNames)
                     c == stripSuffix(d.orig, m_blacklist)
                 IN  (d.assigned /\ d.name # c.val) =>
                         FallbackIndex(c.val, d.name) \in
                             1..(Cardinality(DOMAIN before) + Cardinality(BlacklistSet) + 1)
          /\ (~failed /\ failed') =>
                 SizeMax - 1 <= Cardinality(DOMAIN m_usedNames') + Cardinality(BlacklistSet)]_vars

FallbackAtThree ==
    /\ ~failed
    /\ Cardinality(BlacklistSet) = 2
    /\ Len(decls) = 2
    /\ decls[1].orig = a /\ decls[1].name = a
    /\ decls[2].orig = a_1 /\ decls[2].name = a_3

(***************************************************************************)
(* Model of TestFileParser (test/libsolidity/util/TestFileParser.{h,cpp}). *)
(*                                                                         *)
(* A line is a sequence of one-character strings.  An iterator into a      *)
(* string s is an index in 1..Len(s) + 1, the last one being s.end().  A   *)
(* function that can throw returns a record whose field `error` is ""      *)
(* when it returned, "ParserError" when it threw Error(ParserError), and   *)
(* "abort" when the run was ended by the dereference of an end iterator.   *)
(* A u256 is modelled for values below 2^31.                               *)
(***************************************************************************)
isspace(ch) == ch \in {" ", "\t"}

isdigit(ch) == ch \in Digits

RECURSIVE skipWhitespace(_, _)
skipWhitespace(s, it) ==
    IF it <= Len(s) /\ isspace(s[it]) THEN skipWhitespace(s, it + 1) ELSE it

RECURSIVE skipSlashes(_, _)
skipSlashes(s, it) ==
    IF it <= Len(s) /\ s[it] = "/" THEN skipSlashes(s, it + 1) ELSE it

\* expect(_it, _end, _c): the iterator after _c, or the error thrown
expect(s, it, _c) ==
    IF it > Len(s) \/ s[it] # _c
    THEN [error |-> "ParserError", it |-> it]
    ELSE [error |-> "", it |-> it + 1]

\* boost::algorithm::trim
RECURSIVE trim(_)
trim(s) ==
    IF s = <<>> THEN s
    ELSE IF isspace(Head(s)) THEN trim(Tail(s))
    ELSE IF isspace(s[Len(s)]) THEN trim(SubSeq(s, 1, Len(s) - 1))
    ELSE s

HexDigit == <<"0", "1", "2", "3", "4", "5", "6", "7", "8", "9",
              "a", "b", "c", "d", "e", "f">>

\* the value of the digits s in the given radix from acc on, -1 for a
\* character that is no digit of the radix
RECURSIVE ParseDigits(_, _, _)
ParseDigits(s, radix, acc) ==
    IF s = <<>> THEN acc
    ELSE LET ds == {k \in 1..radix : HexDigit[k] = Head(s)}
         IN  IF ds = {} THEN -1
             ELSE ParseDigits(Tail(s), radix, acc * radix + (CHOOSE k \in ds : TRUE) - 1)

\* u256{string}: an optional sign, 0 for octal, 0x for hexadecimal; mag is the
\* magnitude, and ok is FALSE when the constructor throws
u256(s) ==
    LET neg == s # <<>> /\ Head(s) = "-"
        t == IF neg THEN Tail(s) ELSE s
        hex == Len(t) >= 2 /\ t[1] = "0" /\ t[2] \in {"x", "X"}
        oct == ~hex /\ Len(t) >= 1 /\ t[1] = "0"
        mag == IF hex THEN ParseDigits(SubSeq(t, 3, Len(t)), 16, 0)
               ELSE IF oct THEN ParseDigits(Tail(t), 8, 0)
               ELSE ParseDigits(t, 10, 0)
    IN  [ok |-> mag >= 0, neg |-> neg /\ mag > 0, mag |-> mag]

\* byte i of the 32 bytes of the big-endian form of v
BigEndianByte(v, i) == IF 32 - i > 3 THEN 0 ELSE (v \div (256 ^ (32 - i))) % 256

\* toBigEndian(u256): 32 bytes; a negative number wraps to 2^256 - mag
toBigEndian(n) ==
    IF n.neg THEN [i \in 1..32 |-> 255 - BigEndianByte(n.mag - 1, i)]
    ELSE [i \in 1..32 |-> BigEndianByte(n.mag, i)]

\* ByteFormat::size
ByteFormatSize == 32

\* the end of the literal that starts at it: the first whitespace or comma
RECURSIVE literalEnd(_, _)
literalEnd(s, it) ==
    IF it <= Len(s) /\ ~isspace(s[it]) /\ s[it] # "," THEN literalEnd(s, it + 1) ELSE it

\* the loop of formattedStringToBytes from it on
RECURSIVE formattedStringLoop(_, _, _, _)
formattedStringLoop(s, it, result, formats) ==
    IF it > Len(s) THEN [error |-> "", bytes |-> result, formats |-> formats]
    ELSE
    IF ~(isdigit(s[it]) \/ (s[it] = "-" /\ it + 1 <= Len(s) /\ isdigit(s[it + 1])))
    THEN [error |-> "ParserError", bytes |-> <<>>, formats |-> <<>>]
    ELSE
    LET isNegative == s[it] = "-"
        format == [type |-> IF isNegative THEN "SignedDec" ELSE "UnsignedDec",
                   size |-> ByteFormatSize]
        valueEnd == literalEnd(s, it)
        numberValue == u256(SubSeq(s, it, valueEnd - 1))
        newBytes == IF numberValue.mag = 0 THEN <<0>> ELSE toBigEndian(numberValue)
        afterSpace == skipWhitespace(s, valueEnd)
        comma == IF afterSpace <= Len(s) THEN expect(s, afterSpace, ",")
                 ELSE [error |-> "", it |-> afterSpace]
    IN  IF ~numberValue.ok \/ comma.error # ""
        THEN [error |-> "ParserError", bytes |-> <<>>, formats |-> <<>>]
        ELSE formattedStringLoop(s, skipWhitespace(s, comma.it),
                                 result \o newBytes, Append(formats, format))

formattedStringToBytes(_string) == formattedStringLoop(_string, 1, <<>>, <<>>)

\* what Scanner::current() gives when m_char is m_line.end(): the terminator
\* of the string, or the end of the run where iterators are checked
EndReads == {"NUL", "abort"}

\* the first position from it on that holds _char, or the end of the line
RECURSIVE untilCharacter(_, _, _)
untilCharacter(line, it, _char) ==
    IF it <= Len(line) /\ line[it] # _char THEN untilCharacter(line, it + 1, _char) ELSE it

parseUntilCharacter(line, it, _char, _expect) ==
    LET stop == untilCharacter(line, it, _char)
        e == expect(line, stop, _char)
    IN  IF ~_expect THEN [error |-> "", it |-> stop, string |-> SubSeq(line, it, stop - 1)]
        ELSE IF e.error # "" THEN [error |-> e.error, it |-> stop, string |-> <<>>]
        ELSE [error |-> "", it |-> e.it, string |-> SubSeq(line, it, e.it - 1)]

\* the position after TestFileParser::advanceLine has read the line
advanceLine(line) == skipWhitespace(line, skipSlashes(line, skipWhitespace(line, 1)))

parseFunctionCallSignature(line, it) == parseUntilCharacter(line, it, ")", TRUE)

\* boost::split at every blank
RECURSIVE split(_)
split(s) ==
    LET k == untilCharacter(s, 1, " ")
    IN  IF k > Len(s) THEN <<s>>
        ELSE <<SubSeq(s, 1, k - 1)>> \o split(SubSeq(s, k + 1, Len(s)))

NoEther == [has |-> FALSE, neg |-> FALSE, mag |-> 0]

ether == <<"e", "t", "h", "e", "r">>

parseFunctionCallValue(line, it, atEnd) ==
    LET p == skipWhitespace(line, it)
        rawEther == trim(parseUntilCharacter(line, p + 1, ":", FALSE).string)
        stop == parseUntilCharacter(line, p + 1, ":", FALSE).it
        tokens == split(rawEther)
        n == u256(tokens[1])
    IN  IF p > Len(line) /\ atEnd = "abort" THEN [error |-> "abort", it |-> p, value |-> NoEther]
        ELSE IF p > Len(line) \/ line[p] # "," THEN [error |-> "", it |-> p, value |-> NoEther]
        ELSE IF Len(tokens) # 2 \/ tokens[2] # ether \/ ~n.ok
             THEN [error |-> "ParserError", it |-> stop, value |-> NoEther]
        ELSE [error |-> "", it |-> stop,
              value |-> [has |-> TRUE, neg |-> n.neg, mag |-> n.mag]]

NoArguments == [raw |-> <<>>, rawBytes |-> <<>>, formats |-> <<>>, comment |-> <<>>]

\* the comment that follows the values of a line, from it on
parseComment(line, it) ==
    IF it > Len(line) THEN <<>>
    ELSE SubSeq(line, skipWhitespace(line, expect(line, it, "#").it), Len(line))

parseFunctionCallArguments(line, it) ==
    LET p == skipWhitespace(line, it)
        colon == expect(line, p, ":")
        u == parseUntilCharacter(line, skipWhitespace(line, colon.it), "#", FALSE)
        rawArguments == trim(u.string)
        bytesFormat == formattedStringToBytes(rawArguments)
    IN  IF p > Len(line) THEN [error |-> "", arguments |-> NoArguments]
        ELSE IF line[p] = "#"
             THEN [error |-> "",
                   arguments |-> [NoArguments EXCEPT !.comment = parseComment(line, p)]]
        ELSE IF colon.error # "" \/ bytesFormat.error # ""
             THEN [error |-> "ParserError", arguments |-> NoArguments]
        ELSE [error |-> "",
              arguments |-> [raw |-> rawArguments, rawBytes |-> bytesFormat.bytes,
                             formats |-> bytesFormat.formats,
                             comment |-> parseComment(line, u.it)]]

NoExpectations ==
    [raw |-> <<>>, rawBytes |-> <<>>, formats |-> <<>>, status |-> FALSE,
     output |-> <<>>, comment |-> <<>>]

REVERT == <<"R", "E", "V", "E", "R", "T">>

\* expectCharacterSequence: the characters of seq from k on are next in the line
RECURSIVE expectCharacterSequence(_, _, _, _)
expectCharacterSequence(line, it, seq, k) ==
    IF k > Len(seq) THEN [error |-> "", it |-> it]
    ELSE IF expect(line, it, seq[k]).error # "" THEN [error |-> "ParserError", it |-> it]
    ELSE expectCharacterSequence(line, it + 1, seq, k + 1)

parseFunctionCallExpectations(line, it) ==
    LET gt == expect(line, it + 1, ">")
        u == parseUntilCharacter(line, skipWhitespace(line, gt.it), "#", FALSE)
        rawExpectation == trim(u.string)
        bytesFormat == formattedStringToBytes(rawExpectation)
    IN  IF it <= Len(line) /\ line[it] = "-"
        THEN IF gt.error # "" \/ bytesFormat.error # ""
             THEN [error |-> "ParserError", expectations |-> NoExpectations]
             ELSE [error |-> "",
                   expectations |-> [raw |-> rawExpectation, rawBytes |-> bytesFormat.bytes,
                                     formats |-> bytesFormat.formats, status |-> TRUE,
                                     output |-> <<>>,
                                     comment |-> parseComment(line, u.it)]]
        ELSE [error |-> expectCharacterSequence(line, it, REVERT, 1).error,
              expectations |-> NoExpectations]

Arrow == <<"-", ">", " ">>

\* one pass of the loop of parseFunctionCalls over a line that is not empty:
\* the parser after it, atEnd being what a read at the end of the line gives
parseFunctionCall(stream, calls, atEnd) ==
    LET line == stream[1]
        sig == parseFunctionCallSignature(line, advanceLine(line))
        val == parseFunctionCallValue(line, sig.it, atEnd)
        args == parseFunctionCallArguments(line, val.it)
        exp == parseFunctionCallExpectations(stream[2], advanceLine(stream[2]))
        Thrown(rest) == [state |-> "ParserError", stream |-> rest, calls |-> <<>>]
    IN  IF sig.error # "" THEN Thrown(Tail(stream))
        ELSE IF val.error = "abort"
             THEN [state |-> "abort", stream |-> Tail(stream), calls |-> <<>>]
        ELSE IF val.error # "" \/ args.error # "" THEN Thrown(Tail(stream))
        ELSE IF Len(stream) < 2 THEN Thrown(<<>>)
        ELSE IF exp.error # "" THEN Thrown(Tail(Tail(stream)))
        ELSE [state |-> "running",
              stream |-> Tail(Tail(stream)),
              calls |-> Append(calls,
                  [signature |-> sig.string,
                   value |-> [neg |-> val.value.neg, mag |-> val.value.mag],
                   arguments |-> args.arguments,
                   expectations |->
                       [exp.expectations EXCEPT
                           !.output = IF exp.expectations.status
                                      THEN Arrow \o exp.expectations.raw
                                      ELSE REVERT]])]

\* advanceLine() finds no line: the loop ends and the calls are returned
ReturnCalls ==
    /\ parser.state = "running"
    /\ parser.stream = <<>>
    /\ parser' = [parser EXCEPT !.state = "returned"]
    /\ UNCHANGED <<m_blacklist, builtins, m_usedNames, decls, ident, failed, rerun, strip, conversion>>

\* the line is empty after its blanks and slashes: continue
SkipEmptyLine ==
    /\ parser.state = "running"
    /\ parser.stream # <<>>
    /\ advanceLine(parser.stream[1]) > Len(parser.stream[1])
    /\ parser' = [parser EXCEPT !.stream = Tail(parser.stream)]
    /\ UNCHANGED <<m_blacklist, builtins, m_usedNames, decls, ident, failed, rerun, strip, conversion>>

\* the line is a call: it is parsed together with the line after it
ParseFunctionCall ==
    /\ parser.state = "running"
    /\ parser.stream # <<>>
    /\ advanceLine(parser.stream[1]) <= Len(parser.stream[1])
    /\ \E atEnd \in EndReads : parser' = parseFunctionCall(parser.stream, parser.calls, atEnd)
    /\ UNCHANGED <<m_blacklist, builtins, m_usedNames, decls, ident, failed, rerun, strip, conversion>>

\* number of lines of the stream
MaxLines == 4

\* // f(): 1
callWithArguments == <<"/", "/", " ", "f", "(", ")", ":", " ", "1">>

\* // g()
callWithoutArguments == <<"/", "/", " ", "g", "(", ")">>

\* // h(), 1 ether: 0
callWithEther ==
    <<"/", "/", " ", "h", "(", ")", ",", " ", "1",
      " ", "e", "t", "h", "e", "r", ":", " ", "0">>

\* // -> 1
expectOne == <<"/", "/", " ", "-", ">", " ", "1">>

\* // -> x
expectInvalid == <<"/", "/", " ", "-", ">", " ", "x">>

\* // REVERT
expectRevert == <<"/", "/", " ", "R", "E", "V", "E", "R", "T">>

\* //
emptyLine == <<"/", "/">>

Lines ==
    {callWithArguments, callWithoutArguments, callWithEther,
     expectOne, expectInvalid, expectRevert, emptyLine}

ParserInit ==
    /\ Construct({}, <<>>)
    /\ decls = <<>>
    /\ ident = NoIdentifier
    /\ failed = FALSE
    /\ rerun = NoRerun
    /\ strip = NoStrip
    /\ conversion = NoConversion
    /\ \E _stream \in {<<>>} \cup SeqsUpTo(Lines, MaxLines) :
           parser = [state |-> "running", stream |-> _stream, calls |-> <<>>]

ParserNext == ReturnCalls \/ SkipEmptyLine \/ ParseFunctionCall

ParserSpec == ParserInit /\ [][ParserNext]_vars

(***************************************************************************)
(* The protocol of parseFunctionCalls, stated on the lines of the stream.  *)
(***************************************************************************)
\* the text of a line after its leading blanks and slashes
Content(line) == SubSeq(line, advanceLine(line), Len(line))

StartsWith(s, prefix) == Len(s) >= Len(prefix) /\ SubSeq(s, 1, Len(prefix)) = prefix

\* the values of an expectation e that starts with ->, up to its comment
ArrowRaw(e) == trim(SubSeq(e, 3, untilCharacter(e, 3, "#") - 1))

\* which of the two forms an expectation has: -> with a list of values that
\* can be encoded, or REVERT
ExpectationForm(e) ==
    IF StartsWith(e, <<"-", ">">>) /\ formattedStringToBytes(ArrowRaw(e)).error = ""
    THEN "arrow"
    ELSE IF StartsWith(e, REVERT) THEN "revert"
    ELSE "neither"

\* the call line has a signature that is closed by ) and, when it has them, a
\* value in ether and arguments that can be encoded
WellFormedCall(line) ==
    parseFunctionCall(<<line, REVERT>>, <<>>, "NUL").state = "running"

\* C16. Protocol of parseFunctionCalls: every pass of the loop starts in a
\* parser that has neither returned nor thrown; with no line left the calls
\* are returned; an empty line is skipped; a call line is paired with the line
\* after it, and one FunctionCall is appended for it, with status true and
\* output "-> " + raw for an expectation ->, with status false and output
\* REVERT for an expectation REVERT; when no line follows the call line, or
\* the line that follows has neither form, a ParserError is raised and no list
\* is returned.
CallExpectationProtocol ==
    [][/\ parser.state = "running"
       /\ LET st == parser.stream
          IN  IF st = <<>>
              THEN parser' = [parser EXCEPT !.state = "returned"]
              ELSE IF Content(st[1]) = <<>>
              THEN parser' = [parser EXCEPT !.stream = Tail(st)]
              ELSE WellFormedCall(st[1]) =>
                  IF Len(st) = 1 \/ ExpectationForm(Content(st[2])) = "neither"
                  THEN parser'.state = "ParserError" /\ parser'.calls = <<>>
                  ELSE LET e == Content(st[2])
                           call == parser'.calls[Len(parser'.calls)]
                       IN  /\ parser'.state = "running"
                           /\ parser'.stream = Tail(Tail(st))
                           /\ Len(parser'.calls) = Len(parser.calls) + 1
                           /\ SubSeq(parser'.calls, 1, Len(parser.calls)) = parser.calls
                           /\ StartsWith(Content(st[1]), call.signature)
                           /\ call.signature[Len(call.signature)] = ")"
                           /\ call.expectations.status = (ExpectationForm(e) = "arrow")
                           /\ call.expectations.output =
                                  IF ExpectationForm(e) = "arrow" THEN Arrow \o ArrowRaw(e)
                                  ELSE REVERT]_vars

(***************************************************************************)
(* bytesToFormattedString and the round trip through                       *)
(* formattedStringToBytes.                                                 *)
(***************************************************************************)
\* what a read of _bytes past its end gives: the end of the run where
\* iterators or memory are checked, or whatever lies there, all bits clear or
\* all bits set
PastEndReads == {"abort", "clear", "set"}

\* bytes byteRange{it, it + size}
byteRange(_bytes, it, size, pastEnd) ==
    [k \in 1..size |->
        IF it + k - 1 <= Len(_bytes) THEN _bytes[it + k - 1]
        ELSE IF pastEnd = "clear" THEN 0 ELSE 255]

\* fromBigEndian<u256>: the value of the bytes b, -1 for a value of 2^31 or more
fromBigEndian(b) ==
    IF \E k \in 1..(Len(b) - 4) : b[k] # 0 THEN -1
    ELSE IF b[Len(b) - 3] >= 128 THEN -1
    ELSE ((b[Len(b) - 3] * 256 + b[Len(b) - 2]) * 256 + b[Len(b) - 1]) * 256 + b[Len(b)]

\* operator<< of a u256: its decimal numeral; a value of 2^31 or more is
\* written as one character that is no digit
decimal(v) == IF v < 0 THEN <<"N">> ELSE to_string(v)

\* the text written for one format
formatted(range, format) ==
    IF format.type = "SignedDec" /\ range[1] >= 128
    THEN LET v == fromBigEndian([k \in 1..Len(range) |-> 255 - range[k]])
         IN  <<"-">> \o decimal(IF v < 0 THEN v ELSE v + 1)
    ELSE decimal(fromBigEndian(range))

\* the loop of bytesToFormattedString from format k and iterator it on
RECURSIVE bytesToFormattedLoop(_, _, _, _, _, _)
bytesToFormattedLoop(_bytes, _formats, k, it, resultStream, pastEnd) ==
    IF k > Len(_formats) THEN [error |-> "", string |-> resultStream]
    ELSE LET format == _formats[k]
             next == it + format.size
         IN  IF next > Len(_bytes) + 1 /\ pastEnd = "abort"
             THEN [error |-> "abort", string |-> <<>>]
             ELSE bytesToFormattedLoop(_bytes, _formats, k + 1, next,
                      resultStream
                          \o formatted(byteRange(_bytes, it, format.size, pastEnd), format)
                          \o (IF next # Len(_bytes) + 1 THEN <<",">> ELSE <<>>),
                      pastEnd)

bytesToFormattedString(_bytes, _formats, pastEnd) ==
    bytesToFormattedLoop(_bytes, _formats, 1, 1, <<>>, pastEnd)

\* formattedStringToBytes(conversion.string)
FormattedStringToBytes ==
    /\ conversion.state = "string"
    /\ \E r \in {formattedStringToBytes(conversion.string)} :
           conversion' =
               IF r.error # "" THEN [conversion EXCEPT !.state = "ParserError"]
               ELSE [conversion EXCEPT !.state = "bytes", !.bytes = r.bytes,
                                       !.formats = r.formats]
    /\ UNCHANGED <<m_blacklist, builtins, m_usedNames, decls, ident, failed, rerun, strip,
                   parser>>

\* bytesToFormattedString(conversion.bytes, conversion.formats)
BytesToFormattedString ==
    /\ conversion.state = "bytes"
    /\ \E pastEnd \in PastEndReads :
           \E r \in {bytesToFormattedString(conversion.bytes, conversion.formats, pastEnd)} :
               conversion' =
                   IF r.error # "" THEN [conversion EXCEPT !.state = "abort"]
                   ELSE [conversion EXCEPT !.state = "formatted", !.output = r.string]
    /\ UNCHANGED <<m_blacklist, builtins, m_usedNames, decls, ident, failed, rerun, strip,
                   parser>>

\* length of the string given to formattedStringToBytes
MaxString == 4

FormatChars == {"0", "1", "-", ",", " "}

FormatInit ==
    /\ Construct({}, <<>>)
    /\ decls = <<>>
    /\ ident = NoIdentifier
    /\ failed = FALSE
    /\ rerun = NoRerun
    /\ strip = NoStrip
    /\ parser = NoParser
    /\ \E _string \in {<<>>} \cup SeqsUpTo(FormatChars, MaxString) :
           conversion = [NoConversion EXCEPT !.state = "string", !.string = _string]

FormatNext == FormattedStringToBytes \/ BytesToFormattedString

FormatSpec == FormatInit /\ [][FormatNext]_vars

\* the parts of s between its commas
RECURSIVE SplitComma(_)
SplitComma(s) ==
    LET k == untilCharacter(s, 1, ",")
    IN  IF k > Len(s) THEN <<s>>
        ELSE <<SubSeq(s, 1, k - 1)>> \o SplitComma(SubSeq(s, k + 1, Len(s)))

\* the literals of a comma-separated list, a comma after the last one allowed
Literals(s) ==
    LET parts == SplitComma(s)
        kept == IF trim(parts[Len(parts)]) = <<>> THEN SubSeq(parts, 1, Len(parts) - 1)
                ELSE parts
    IN  [k \in 1..Len(kept) |-> trim(kept[k])]

\* t is a decimal literal: an optional sign, then 0 or digits that do not
\* start with 0
IsDecimalLiteral(t) ==
    LET ds == IF t # <<>> /\ Head(t) = "-" THEN Tail(t) ELSE t
    IN  /\ ds # <<>>
        /\ \A k \in 1..Len(ds) : isdigit(ds[k])
        /\ Len(ds) > 1 => ds[1] # "0"

\* the number a numeral stands for, read in base ten; mag is -1 for a text
\* that is no numeral
NumeralValue(t) ==
    LET neg == t # <<>> /\ Head(t) = "-"
        ds == IF neg THEN Tail(t) ELSE t
        mag == IF ds = <<>> THEN -1 ELSE ParseDigits(ds, 10, 0)
    IN  [neg |-> neg /\ mag > 0, mag |-> mag]

NumeralValues(ts) == [k \in 1..Len(ts) |-> NumeralValue(ts[k])]

RECURSIVE SumOfSizes(_)
SumOfSizes(_formats) ==
    IF _formats = <<>> THEN 0 ELSE Head(_formats).size + SumOfSizes(Tail(_formats))

\* C21. Byte layout of formattedStringToBytes: for every accepted list of
\* decimal literals, 0 among them, there is one format of size 32 for each
\* literal and the bytes are as many as the sizes of the formats add up to, so
\* that bytesToFormattedString reads no byte past the end and writes the
\* values of the literals.
ByteLayout ==
    LET lits == Literals(conversion.string)
    IN  (/\ conversion.state \in {"bytes", "formatted", "abort"}
         /\ \A k \in 1..Len(lits) : IsDecimalLiteral(lits[k])) =>
            /\ Len(conversion.formats) = Len(lits)
            /\ \A k \in 1..Len(lits) : conversion.formats[k].size = 32
            /\ Len(conversion.bytes) = SumOfSizes(conversion.formats)
            /\ conversion.state # "abort"
            /\ conversion.state = "formatted" =>
                   NumeralValues(SplitComma(conversion.output)) = NumeralValues(lits)

====
